---------------------------- MODULE Spec2Model ----------------------------
(***************************************************************************)
(* Model of src/cli/device_cli.py: the DeviceManagementClient operations,  *)
(* the polling loop poll_action_status, the command interpreter of main    *)
(* and the text conversions they use.                                      *)
(*                                                                         *)
(* A Python str is a sequence of one-character strings, so that upper(),   *)
(* lower(), strip(), split("=", 1), shlex.split() and float() are computed *)
(* character by character.                                                 *)
(***************************************************************************)
EXTENDS Integers, Sequences, FiniteSets, TLC

\* Largest number of status checks one poll makes in the model: the remote
\* side answers the MaxChecks-th check with a terminal status or a failure.
MaxChecks == 4

---------------------------------------------------------------------------
\* String literals of the source.

w_list == <<"l", "i", "s", "t">>

w_register == <<"r", "e", "g", "i", "s", "t", "e", "r">>

w_set_status == <<"s", "e", "t", "-", "s", "t", "a", "t", "u", "s">>

w_get_info == <<"g", "e", "t", "-", "i", "n", "f", "o">>

w_initiate_action == <<"i", "n", "i", "t", "i", "a", "t", "e", "-", "a", "c", "t", "i", "o", "n">>

w_action_status == <<"a", "c", "t", "i", "o", "n", "-", "s", "t", "a", "t", "u", "s">>

w_poll_action == <<"p", "o", "l", "l", "-", "a", "c", "t", "i", "o", "n">>

w_help == <<"h", "e", "l", "p">>

w_exit == <<"e", "x", "i", "t">>

w_quit == <<"q", "u", "i", "t">>

w_f_name == <<"-", "-", "n", "a", "m", "e">>

w_f_type == <<"-", "-", "t", "y", "p", "e">>

w_f_status == <<"-", "-", "s", "t", "a", "t", "u", "s">>

w_f_params == <<"-", "-", "p", "a", "r", "a", "m", "s">>

w_f_interval == <<"-", "-", "i", "n", "t", "e", "r", "v", "a", "l">>

w_IDLE == <<"I", "D", "L", "E">>

w_BUSY == <<"B", "U", "S", "Y">>

w_OFFLINE == <<"O", "F", "F", "L", "I", "N", "E">>

w_MAINTENANCE == <<"M", "A", "I", "N", "T", "E", "N", "A", "N", "C", "E">>

w_UPDATING == <<"U", "P", "D", "A", "T", "I", "N", "G">>

w_RECOVERING == <<"R", "E", "C", "O", "V", "E", "R", "I", "N", "G">>

w_ERROR == <<"E", "R", "R", "O", "R">>

w_SOFTWARE_UPDATE == <<"S", "O", "F", "T", "W", "A", "R", "E", "_", "U", "P", "D", "A", "T", "E">>

w_FIRMWARE_UPDATE == <<"F", "I", "R", "M", "W", "A", "R", "E", "_", "U", "P", "D", "A", "T", "E">>

w_SYSTEM_REBOOT == <<"S", "Y", "S", "T", "E", "M", "_", "R", "E", "B", "O", "O", "T">>

w_CONFIGURATION_CHANGE == <<"C", "O", "N", "F", "I", "G", "U", "R", "A", "T", "I", "O", "N", "_", "C", "H", "A", "N", "G", "E">>

w_PENDING == <<"P", "E", "N", "D", "I", "N", "G">>

w_RUNNING == <<"R", "U", "N", "N", "I", "N", "G">>

w_COMPLETED == <<"C", "O", "M", "P", "L", "E", "T", "E", "D">>

w_FAILED == <<"F", "A", "I", "L", "E", "D">>

w_UNKNOWN == <<"U", "N", "K", "N", "O", "W", "N">>

---------------------------------------------------------------------------
\* str methods.

LowerChars == <<"a", "b", "c", "d", "e", "f", "g", "h", "i", "j", "k", "l", "m",
                "n", "o", "p", "q", "r", "s", "t", "u", "v", "w", "x", "y", "z">>

UpperChars == <<"A", "B", "C", "D", "E", "F", "G", "H", "I", "J", "K", "L", "M",
                "N", "O", "P", "Q", "R", "S", "T", "U", "V", "W", "X", "Y", "Z">>

DigitChars == {"0", "1", "2", "3", "4", "5", "6", "7", "8", "9"}

UpperChar(c) ==
    IF \E i \in 1..26 : LowerChars[i] = c
    THEN UpperChars[CHOOSE i \in 1..26 : LowerChars[i] = c]
    ELSE c

LowerChar(c) ==
    IF \E i \in 1..26 : UpperChars[i] = c
    THEN LowerChars[CHOOSE i \in 1..26 : UpperChars[i] = c]
    ELSE c

\* str.upper()
upper(s) == [i \in 1..Len(s) |-> UpperChar(s[i])]

\* str.lower()
lower(s) == [i \in 1..Len(s) |-> LowerChar(s[i])]

\* str.strip(): leading and trailing whitespace removed
strip(s) ==
    LET nonblank == {i \in 1..Len(s) : s[i] # " "}
    IN  IF nonblank = {} THEN <<>>
        ELSE LET first == CHOOSE i \in nonblank : \A j \in nonblank : i <= j
                 last  == CHOOSE i \in nonblank : \A j \in nonblank : j <= i
             IN  SubSeq(s, first, last)

\* " ".join(words)
RECURSIVE Join(_)
Join(words) ==
    IF words = <<>> THEN <<>>
    ELSE IF Len(words) = 1 THEN words[1]
    ELSE words[1] \o <<" ">> \o Join(Tail(words))

\* `x in seq` and seq.index(x) of a Python list
Contains(seq, x) == \E i \in 1..Len(seq) : seq[i] = x

IndexOf(seq, x) == CHOOSE i \in 1..Len(seq) : seq[i] = x /\ \A j \in 1..(i - 1) : seq[j] # x

---------------------------------------------------------------------------
\* shlex.split(command): POSIX rules, whitespace_split, no comments.
\* The scanner is in one of six states: " " between tokens, "a" in a token,
\* "'" and "\"" in a quotation, "\\a" after an escape character outside
\* quotes, "\\q" after an escape character inside double quotes.

ShlexStates == {" ", "a", "'", "\"", "\\a", "\\q"}

\* the state after reading c in state q
shlex_step(q, c) ==
    CASE q \in {" ", "a"} ->
           IF c = " " THEN " "
           ELSE IF c = "\\" THEN "\\a"
           ELSE IF c \in {"'", "\""} THEN c
           ELSE "a"
      [] q = "'" -> IF c = "'" THEN "a" ELSE "'"
      [] q = "\"" -> IF c = "\"" THEN "a" ELSE IF c = "\\" THEN "\\q" ELSE "\""
      [] q = "\\a" -> "a"
      [] q = "\\q" -> "\""

\* what reading c in state q adds to the current token
shlex_emit(q, c) ==
    CASE q \in {" ", "a"} -> IF c \in {" ", "\\", "'", "\""} THEN <<>> ELSE <<c>>
      [] q = "'" -> IF c = "'" THEN <<>> ELSE <<c>>
      [] q = "\"" -> IF c \in {"\"", "\\"} THEN <<>> ELSE <<c>>
      [] q = "\\a" -> <<c>>
      [] q = "\\q" -> IF c \in {"\"", "\\"} THEN <<c>> ELSE <<"\\", c>>

\* the scanner after reading c: q its state, token the token being read,
\* parts the tokens read so far
shlex_read(st, c) ==
    [q     |-> shlex_step(st.q, c),
     token |-> IF st.q \in {" ", "a"} /\ c = " " THEN <<>>
               ELSE st.token \o shlex_emit(st.q, c),
     parts |-> IF st.q = "a" /\ c = " " THEN Append(st.parts, st.token)
               ELSE st.parts]

\* the scanner after reading s[lo..hi], by halves: the first half is read
\* before the second
RECURSIVE shlex_scan(_, _, _, _)
shlex_scan(s, lo, hi, st) ==
    IF lo > hi THEN st
    ELSE IF lo = hi THEN shlex_read(st, s[lo])
    ELSE LET mid   == (lo + hi) \div 2
             first == shlex_scan(s, lo, mid, st)
         IN  IF first.q \in ShlexStates
             THEN shlex_scan(s, mid + 1, hi, first)
             ELSE first

\* [ok |-> TRUE, parts |-> tokens], or ok = FALSE for the ValueError of an
\* unclosed quotation or of a trailing escape character
shlex_split(command) ==
    LET final == shlex_scan(command, 1, Len(command),
                            [q |-> " ", token |-> <<>>, parts |-> <<>>])
    IN  IF final.q = " " THEN [ok |-> TRUE, parts |-> final.parts]
        ELSE IF final.q = "a" THEN [ok |-> TRUE, parts |-> Append(final.parts, final.token)]
        ELSE [ok |-> FALSE, parts |-> <<>>]

---------------------------------------------------------------------------
\* float(text) and time.sleep(seconds).  A float is kept as its sign and its
\* magnitude class, which is all that time.sleep looks at.  The exponent of a
\* decimal literal is read but not applied: literals whose value leaves the
\* range of a double (1e999, 1e-999) are outside the model.

\* the special values float() accepts, in any case
w_inf == <<"i", "n", "f">>

w_infinity == <<"i", "n", "f", "i", "n", "i", "t", "y">>

w_nan == <<"n", "a", "n">>

IsDigitPart(s) ==
    /\ Len(s) >= 1
    /\ s[1] \in DigitChars
    /\ s[Len(s)] \in DigitChars
    /\ \A i \in 1..Len(s) : s[i] \in DigitChars \cup {"_"}
    /\ \A i \in 1..(Len(s) - 1) : ~(s[i] = "_" /\ s[i + 1] = "_")

IsMantissa(m) ==
    IF Contains(m, ".")
    THEN LET d == IndexOf(m, ".")
             intpart  == SubSeq(m, 1, d - 1)
             fracpart == SubSeq(m, d + 1, Len(m))
         IN  /\ intpart = <<>> \/ IsDigitPart(intpart)
             /\ fracpart = <<>> \/ IsDigitPart(fracpart)
             /\ ~(intpart = <<>> /\ fracpart = <<>>)
    ELSE IsDigitPart(m)

IsExponent(e) ==
    /\ e # <<>>
    /\ IF e[1] \in {"+", "-"} THEN IsDigitPart(Tail(e)) ELSE IsDigitPart(e)

ValueError == [ok |-> FALSE, sign |-> 1, mag |-> "nan"]

float(text) ==
    LET t == strip(text)
        negative == t # <<>> /\ t[1] = "-"
        body == IF t # <<>> /\ t[1] \in {"+", "-"} THEN Tail(t) ELSE t
        sign == IF negative THEN -1 ELSE 1
        epos == {i \in 1..Len(body) : body[i] \in {"e", "E"}}
        e    == CHOOSE i \in epos : \A j \in epos : i <= j
        mant == IF epos = {} THEN body ELSE SubSeq(body, 1, e - 1)
    IN  IF lower(body) \in {w_inf, w_infinity}
        THEN [ok |-> TRUE, sign |-> sign, mag |-> "inf"]
        ELSE IF lower(body) = w_nan
        THEN [ok |-> TRUE, sign |-> sign, mag |-> "nan"]
        ELSE IF IsMantissa(mant) /\ (epos = {} \/ IsExponent(SubSeq(body, e + 1, Len(body))))
        THEN [ok |-> TRUE, sign |-> sign,
              mag |-> IF \A i \in 1..Len(mant) : mant[i] \in {"0", ".", "_"}
                      THEN "zero" ELSE "finite"]
        ELSE ValueError

\* interval: float = 2.0
DefaultInterval == [ok |-> TRUE, sign |-> 1, mag |-> "finite"]

\* x > 0 for a float x
IsPositive(x) == x.ok /\ x.sign = 1 /\ x.mag \in {"finite", "inf"}

\* time.sleep(seconds) raises ValueError for a negative or NaN argument and
\* OverflowError for an infinite one; it sleeps otherwise (also for 0.0, -0.0)
sleep_raises(seconds) ==
    \/ seconds.mag \in {"nan", "inf"}
    \/ seconds.sign = -1 /\ seconds.mag = "finite"

---------------------------------------------------------------------------
\* Protocol mapping.

\* The enum values of the generated module device_management_pb2.
device_management_pb2 ==
    [IDLE |-> 0, BUSY |-> 1, OFFLINE |-> 2, MAINTENANCE |-> 3, UPDATING |-> 4,
     RECOVERING |-> 5, ERROR |-> 6,
     SOFTWARE_UPDATE |-> 0, FIRMWARE_UPDATE |-> 1, SYSTEM_REBOOT |-> 2,
     CONFIGURATION_CHANGE |-> 3,
     PENDING |-> 0, RUNNING |-> 1, COMPLETED |-> 2, FAILED |-> 3]

\* dict.get(key): [found |-> FALSE] stands for None
dict_get(map, key) ==
    IF \E i \in 1..Len(map) : map[i][1] = key
    THEN [found |-> TRUE, value |-> map[CHOOSE i \in 1..Len(map) : map[i][1] = key][2]]
    ELSE [found |-> FALSE, value |-> 0]

\* dict.get(key, default) of a dict keyed by enum values
dict_get_default(map, key, default) ==
    IF \E i \in 1..Len(map) : map[i][1] = key
    THEN map[CHOOSE i \in 1..Len(map) : map[i][1] = key][2]
    ELSE default

device_status_map ==
    << <<w_IDLE, device_management_pb2.IDLE>>,
       <<w_BUSY, device_management_pb2.BUSY>>,
       <<w_OFFLINE, device_management_pb2.OFFLINE>>,
       <<w_MAINTENANCE, device_management_pb2.MAINTENANCE>>,
       <<w_UPDATING, device_management_pb2.UPDATING>>,
       <<w_RECOVERING, device_management_pb2.RECOVERING>>,
       <<w_ERROR, device_management_pb2.ERROR>> >>

\* _parse_device_status falling back to IDLE: status_map.get(key, IDLE)
_parse_device_status_default_idle(status_str) ==
    [found |-> TRUE,
     value |-> IF dict_get(device_status_map, upper(status_str)).found
               THEN dict_get(device_status_map, upper(status_str)).value
               ELSE device_management_pb2.IDLE]

_parse_device_status(status_str) == dict_get(device_status_map, upper(status_str))

_device_status_to_string(status_enum) ==
    dict_get_default([i \in 1..Len(device_status_map) |->
                         <<device_status_map[i][2], device_status_map[i][1]>>],
                     status_enum, w_UNKNOWN)

action_type_map ==
    << <<w_SOFTWARE_UPDATE, device_management_pb2.SOFTWARE_UPDATE>>,
       <<w_FIRMWARE_UPDATE, device_management_pb2.FIRMWARE_UPDATE>>,
       <<w_SYSTEM_REBOOT, device_management_pb2.SYSTEM_REBOOT>>,
       <<w_CONFIGURATION_CHANGE, device_management_pb2.CONFIGURATION_CHANGE>> >>

\* _parse_action_type without .upper(): action_map.get(action_str)
_parse_action_type_case_sensitive(action_str) == dict_get(action_type_map, action_str)

_parse_action_type(action_str) == dict_get(action_type_map, upper(action_str))

_action_type_to_string(action_enum) ==
    dict_get_default([i \in 1..Len(action_type_map) |->
                         <<action_type_map[i][2], action_type_map[i][1]>>],
                     action_enum, w_UNKNOWN)

action_status_map ==
    << <<device_management_pb2.PENDING, w_PENDING>>,
       <<device_management_pb2.RUNNING, w_RUNNING>>,
       <<device_management_pb2.COMPLETED, w_COMPLETED>>,
       <<device_management_pb2.FAILED, w_FAILED>> >>

\* _action_status_to_string without the default: status_map.get(status_enum),
\* which gives None for a value that is not a key
_action_status_to_string_no_default(status_enum) ==
    dict_get_default(action_status_map, status_enum, <<"N", "o", "n", "e">>)

_action_status_to_string(status_enum) ==
    dict_get_default(action_status_map, status_enum, w_UNKNOWN)

\* the parse and format functions the client has for each enum; it has no
\* function that parses an ActionStatus
enum_parse(enum, token) ==
    CASE enum = "DeviceStatus" -> _parse_device_status(token)
      [] enum = "ActionType" -> _parse_action_type(token)
      [] OTHER -> [found |-> FALSE, value |-> 0]

enum_format(enum, value) ==
    CASE enum = "DeviceStatus" -> _device_status_to_string(value)
      [] enum = "ActionType" -> _action_type_to_string(value)
      [] OTHER -> _action_status_to_string(value)

---------------------------------------------------------------------------
\* parse_action_params(params_list): the dict of the KEY=VALUE tokens and the
\* tokens it warned about, in order.  A dict is a function on its keys.

RECURSIVE parse_action_params_from(_, _, _, _)
parse_action_params_from(params_list, i, params, warned) ==
    IF i > Len(params_list) THEN [params |-> params, warned |-> warned]
    ELSE LET param == params_list[i] IN
         IF ~Contains(param, "=")
         THEN parse_action_params_from(params_list, i + 1, params, Append(warned, param))
         ELSE LET eq    == IndexOf(param, "=")
                  key   == SubSeq(param, 1, eq - 1)
                  value == SubSeq(param, eq + 1, Len(param))
              IN  parse_action_params_from(params_list, i + 1,
                      [k \in DOMAIN params \cup {key} |->
                          IF k = key THEN value ELSE params[k]],
                      warned)

\* parse_action_params splitting at the last "=": param.rsplit("=", 1)
parse_action_params_rsplit(params_list) ==
    LET valid == {i \in 1..Len(params_list) : Contains(params_list[i], "=")}
        eq(i) == CHOOSE e \in 1..Len(params_list[i]) :
                    /\ params_list[i][e] = "="
                    /\ \A j \in (e + 1)..Len(params_list[i]) : params_list[i][j] # "="
        key(i) == SubSeq(params_list[i], 1, eq(i) - 1)
        value(i) == SubSeq(params_list[i], eq(i) + 1, Len(params_list[i]))
        last(k) == CHOOSE i \in valid : key(i) = k /\ \A j \in valid : key(j) = k => j <= i
    IN  [params |-> [k \in {key(i) : i \in valid} |-> value(last(k))],
         warned |-> SelectSeq(params_list, LAMBDA t : ~Contains(t, "="))]

EmptyDict == [k \in {} |-> <<>>]

parse_action_params(params_list) ==
    parse_action_params_from(params_list, 1, EmptyDict, <<>>)

---------------------------------------------------------------------------
\* What the user types and what the remote side answers.

w_dev1 == <<"d", "e", "v", "1">>

w_a1 == <<"a", "1">>

w_n1 == <<"n", "1">>

w_t1 == <<"t", "1">>

w_bogus == <<"b", "o", "g", "u", "s">>

w_Busy == <<"B", "u", "s", "y">>

w_idle == <<"i", "d", "l", "e">>

w_offline == <<"o", "f", "f", "l", "i", "n", "e">>

w_BAD_TYPE == <<"B", "A", "D", "_", "T", "Y", "P", "E">>

w_system_reboot == <<"s", "y", "s", "t", "e", "m", "_", "r", "e", "b", "o", "o", "t">>

w_frobnicate == <<"f", "r", "o", "b", "n", "i", "c", "a", "t", "e">>

w_now == <<"n", "o", "w">>

w_boom == <<"b", "o", "o", "m">>

\* the lines input() returns
Lines ==
    { <<>>,
      <<" ", " ">>,
      w_exit,
      w_quit,
      <<" ">> \o w_exit \o <<" ">>,
      w_help,
      Join(<<w_exit, w_now>>),
      upper(w_exit),
      <<"'">> \o w_help \o <<"'">>,
      w_frobnicate,
      Join(<<w_register, <<"\"">> \o w_dev1>>),
      Join(<<w_get_info, w_dev1 \o <<"\\">> >>),
      w_list,
      upper(w_list),
      w_register,
      Join(<<w_register, w_dev1>>),
      Join(<<w_register, <<"'">> \o w_dev1 \o <<" ">> \o w_n1 \o <<"'">> >>),
      Join(<<w_register, w_dev1, w_f_status, w_bogus>>),
      Join(<<w_register, w_dev1, w_f_status, w_Busy>>),
      Join(<<w_register, w_dev1, w_f_status>>),
      Join(<<w_register, w_dev1, w_f_name, w_n1, w_f_type, w_t1, w_f_status, w_idle>>),
      Join(<<w_register, w_dev1, w_f_status, w_idle, w_f_status, w_bogus>>),
      Join(<<w_register, w_dev1, w_f_name, w_f_status, w_bogus>>),
      Join(<<w_set_status, w_dev1>>),
      w_set_status,
      Join(<<w_set_status, w_dev1, w_bogus>>),
      Join(<<w_set_status, w_dev1, w_offline>>),
      w_get_info,
      Join(<<w_get_info, w_dev1>>),
      w_initiate_action,
      Join(<<w_initiate_action, w_dev1>>),
      Join(<<w_initiate_action, w_dev1, w_BAD_TYPE>>),
      Join(<<w_initiate_action, w_dev1, w_SYSTEM_REBOOT>>),
      Join(<<w_initiate_action, w_dev1, w_SYSTEM_REBOOT, w_f_params,
             <<"a", "=", "1">>, <<"b">>, w_f_params>>),
      Join(<<w_initiate_action, w_dev1, w_system_reboot, w_f_params,
             <<"a", "=", "b", "=", "c">>, <<"=", "v">>, <<"k", "=">> >>),
      Join(<<w_initiate_action, w_dev1, w_SYSTEM_REBOOT, w_f_params,
             <<"a", "=", "1">>, <<"a", "=", "2">> >>),
      Join(<<w_initiate_action, w_dev1, w_SYSTEM_REBOOT, w_f_params, <<"b">> >>),
      Join(<<w_initiate_action, w_dev1, w_SYSTEM_REBOOT, w_f_params>>),
      Join(<<w_initiate_action, w_dev1, w_BAD_TYPE, w_f_params, <<"a", "=", "1">>, <<"b">> >>),
      w_action_status,
      Join(<<w_action_status, w_a1>>),
      w_poll_action,
      Join(<<w_poll_action, w_a1>>),
      Join(<<w_poll_action, w_a1, w_f_interval>>),
      Join(<<w_poll_action, w_a1, w_f_interval, <<"0", ".", "5">> >>),
      Join(<<w_poll_action, w_a1, w_f_interval, <<"1", "e", "3">> >>),
      Join(<<w_poll_action, w_a1, w_f_interval, w_bogus>>),
      Join(<<w_poll_action, w_a1, w_f_interval, <<"1", ".", "2", ".", "3">> >>),
      Join(<<w_poll_action, w_a1, w_f_interval, <<"0">> >>),
      Join(<<w_poll_action, w_a1, w_f_interval, <<"-", "1">> >>),
      Join(<<w_poll_action, w_a1, w_f_interval, w_nan>>) }

\* wire values outside the known sets of the three enums
UnknownStatus == device_management_pb2.FAILED + 4

UnknownDeviceStatus == device_management_pb2.ERROR + 1

UnknownActionType == 0 - 1

\* str(n) of an int
Digits == <<"0", "1", "2", "3", "4", "5", "6", "7", "8", "9">>

RECURSIVE str_digits(_)
str_digits(n) ==
    IF n < 10 THEN <<Digits[n + 1]>>
    ELSE str_digits(n \div 10) \o <<Digits[(n % 10) + 1]>>

str(n) == IF n < 0 THEN <<"-">> \o str_digits(0 - n) ELSE str_digits(n)

\* the format specification :<width of an f-string: pad on the right with
\* spaces up to width, never cut
ljust(s, width) ==
    IF Len(s) >= width THEN s ELSE s \o [i \in 1..(width - Len(s)) |-> " "]

w_None == <<"N", "o", "n", "e">>
w_N_A == <<"N", "/", "A">>
w_dots == <<".", ".", ".">>
w_seconds == <<" ", "s", "e", "c", "o", "n", "d", "s">>

\* "N/A" for 0; otherwise the UTC calendar text of time.strftime, written
\* here as the count of seconds it renders
_format_timestamp(timestamp) ==
    IF timestamp = 0 THEN w_N_A ELSE <<"@">> \o str(timestamp)

\* action ids of the server: the first n characters of a fixed text
IdText ==
    <<"a", "c", "t", "-", "0", "1", "2", "3", "4", "5", "6", "7", "8", "9", "b",
      "d", "e", "f", "g", "h", "i", "j", "k", "l", "m", "n", "o", "p", "q", "r">>

ActionId(n) == SubSeq(IdText, 1, n)

\* DeviceInfo messages of a response
NoDevice ==
    [device_id |-> w_dev1, device_name |-> w_n1, device_type |-> w_t1,
     status |-> device_management_pb2.IDLE, registered_at |-> 0,
     last_updated |-> 0, current_action_id |-> <<>>]

Devices ==
    { [NoDevice EXCEPT !.status = s, !.current_action_id = ActionId(n),
                       !.last_updated = n] :
        s \in {device_management_pb2.BUSY, UnknownDeviceStatus},
        n \in {0, 1, 20, 21, Len(IdText)} }

DeviceLists ==
    { <<>> } \cup
    { <<d>> : d \in Devices } \cup
    { <<[NoDevice EXCEPT !.current_action_id = ActionId(21)],
        [NoDevice EXCEPT !.status = UnknownDeviceStatus,
                         !.current_action_id = ActionId(20)],
        NoDevice>> }

\* what a remote call ends in: a response with success=True, a response with
\* success=False and a message, or a raised grpc.RpcError.  The fields of
\* action_info and the fields the other responses carry are side by side.
NoResponse ==
    [kind |-> "none", message |-> <<>>,
     status |-> 0, error_message |-> <<>>, action_type |-> 0,
     initiated_at |-> 0, completed_at |-> 0,
     previous_status |-> 0, current_status |-> 0, action_status |-> 0,
     device_info |-> NoDevice, devices |-> <<>>]

CallResponses ==
    { [NoResponse EXCEPT !.kind = "ok"],
      [NoResponse EXCEPT !.kind = "fail", !.message = w_boom],
      [NoResponse EXCEPT !.kind = "rpc_error"] }

StatusResponses ==
    { r \in CallResponses : r.kind # "ok" } \cup
    { [NoResponse EXCEPT !.kind = "ok", !.status = s, !.error_message = e] :
        s \in { device_management_pb2.PENDING, device_management_pb2.RUNNING,
                device_management_pb2.COMPLETED, device_management_pb2.FAILED,
                UnknownStatus },
        e \in { <<>>, w_boom } }

\* the times of an action: not started, initiated and not completed,
\* completed 90 seconds after initiation, completed with no initiation time
ActionTimes == { <<0, 0>>, <<1000, 0>>, <<1000, 1090>>, <<0, 1090>> }

ActionInfoResponses ==
    { r \in CallResponses : r.kind # "ok" } \cup
    { [r EXCEPT !.action_type = a, !.initiated_at = t[1], !.completed_at = t[2]] :
        r \in { x \in StatusResponses : x.kind = "ok" },
        a \in { device_management_pb2.SYSTEM_REBOOT, UnknownActionType },
        t \in ActionTimes }

SetStatusResponses ==
    { r \in CallResponses : r.kind # "ok" } \cup
    { [NoResponse EXCEPT !.kind = "ok", !.previous_status = p[1],
                         !.current_status = p[2]] :
        p \in { <<device_management_pb2.IDLE, device_management_pb2.OFFLINE>>,
                <<UnknownDeviceStatus, device_management_pb2.OFFLINE>>,
                <<device_management_pb2.IDLE, UnknownDeviceStatus>> } }

DeviceInfoResponses ==
    { r \in CallResponses : r.kind # "ok" } \cup
    { [NoResponse EXCEPT !.kind = "ok", !.device_info = d] : d \in Devices }

ListResponses ==
    { r \in CallResponses : r.kind # "ok" } \cup
    { [NoResponse EXCEPT !.kind = "ok", !.devices = l] : l \in DeviceLists }

InitiateResponses ==
    { r \in CallResponses : r.kind # "ok" } \cup
    { [NoResponse EXCEPT !.kind = "ok", !.action_status = s] :
        s \in { device_management_pb2.PENDING, UnknownStatus } }

\* the responses the server can give to a request
ResponsesTo(req) ==
    CASE req.op = "SetDeviceStatus" -> SetStatusResponses
      [] req.op = "GetDeviceInfo" -> DeviceInfoResponses
      [] req.op = "ListDevices" -> ListResponses
      [] req.op = "InitiateDeviceAction" -> InitiateResponses
      [] req.op = "GetDeviceActionStatus" -> ActionInfoResponses
      [] OTHER -> CallResponses

NoRequest ==
    [op |-> "none", device_id |-> <<>>, device_name |-> <<>>, device_type |-> <<>>,
     status |-> 0, action_type |-> 0, action_params |-> EmptyDict, action_id |-> <<>>]

\* one printed message: what it is and the text it carries
Msg(m, a) == [msg |-> m, arg |-> a]

---------------------------------------------------------------------------
\* DeviceManagementClient operations.  The part of an operation before its
\* remote call gives [call, request, out]: whether the call is issued, the
\* request it carries and what is printed before it.  The part after the call
\* gives [result, out] for the response (or the raised error) of the call.

register_device(device_id, device_name, device_type, initial_status) ==
    LET status_enum == _parse_device_status(initial_status) IN
    IF ~status_enum.found
    THEN [call |-> FALSE, request |-> NoRequest,
          out |-> <<Msg("Error: Invalid status", initial_status)>>]
    ELSE [call |-> TRUE,
          request |-> [NoRequest EXCEPT !.op = "RegisterDevice",
                                        !.device_id = device_id,
                                        !.device_name = device_name,
                                        !.device_type = device_type,
                                        !.status = status_enum.value],
          out |-> <<>>]

set_device_status(device_id, status) ==
    LET status_enum == _parse_device_status(status) IN
    IF ~status_enum.found
    THEN [call |-> FALSE, request |-> NoRequest,
          out |-> <<Msg("Error: Invalid status", status)>>]
    ELSE [call |-> TRUE,
          request |-> [NoRequest EXCEPT !.op = "SetDeviceStatus",
                                        !.device_id = device_id,
                                        !.status = status_enum.value],
          out |-> <<>>]

get_device_info(device_id) ==
    [call |-> TRUE,
     request |-> [NoRequest EXCEPT !.op = "GetDeviceInfo", !.device_id = device_id],
     out |-> <<>>]

list_devices ==
    [call |-> TRUE, request |-> [NoRequest EXCEPT !.op = "ListDevices"], out |-> <<>>]

initiate_action(device_id, action_type, action_params) ==
    LET action_enum == _parse_action_type(action_type) IN
    IF ~action_enum.found
    THEN [call |-> FALSE, request |-> NoRequest,
          out |-> <<Msg("Error: Invalid action type", action_type)>>]
    ELSE [call |-> TRUE,
          request |-> [NoRequest EXCEPT !.op = "InitiateDeviceAction",
                                        !.device_id = device_id,
                                        !.action_type = action_enum.value,
                                        !.action_params = action_params],
          out |-> <<>>]

get_action_status(action_id) ==
    [call |-> TRUE,
     request |-> [NoRequest EXCEPT !.op = "GetDeviceActionStatus", !.action_id = action_id],
     out |-> <<>>]

w_In_progress == <<"I", "n", " ", "p", "r", "o", "g", "r", "e", "s", "s", ".", ".", ".">>

\* what set_device_status prints for a response with success=True
set_device_status_shown(response) ==
    <<Msg("Success", <<>>),
      Msg("Previous", _device_status_to_string(response.previous_status)),
      Msg("Current", _device_status_to_string(response.current_status))>>

\* what get_device_info prints for a response with success=True
get_device_info_shown(response) ==
    LET device == response.device_info IN
    <<Msg("Device Information", <<>>),
      Msg("ID", device.device_id),
      Msg("Name", device.device_name),
      Msg("Type", device.device_type),
      Msg("Status", _device_status_to_string(device.status)),
      Msg("Registered", _format_timestamp(device.registered_at)),
      Msg("Last Updated", _format_timestamp(device.last_updated)),
      Msg("Current Action", IF device.current_action_id # <<>>
                            THEN device.current_action_id ELSE w_None)>>

\* action_column cutting at 20 characters before the dots are added
action_column_cut_at_width(device) ==
    IF Len(device.current_action_id) > 20
    THEN SubSeq(device.current_action_id, 1, 20) \o w_dots
    ELSE IF device.current_action_id # <<>> THEN device.current_action_id
    ELSE w_None

\* the variable action of the loop of list_devices
action_column(device) ==
    IF Len(device.current_action_id) > 20
    THEN SubSeq(device.current_action_id, 1, 17) \o w_dots
    ELSE IF device.current_action_id # <<>> THEN device.current_action_id
    ELSE w_None

\* one line of the table of list_devices: its five cells, which the line
\* separates by one space
list_devices_row(device) ==
    <<ljust(device.device_id, 20),
      ljust(device.device_name, 15),
      ljust(device.device_type, 15),
      ljust(_device_status_to_string(device.status), 15),
      ljust(action_column(device), 20)>>

\* what list_devices prints for a response with success=True
list_devices_shown(response) ==
    LET devices == response.devices IN
    IF Len(devices) = 0
    THEN <<Msg("No devices registered", <<>>)>>
    ELSE <<Msg("Registered Devices", str(Len(devices))), Msg("Table header", <<>>)>>
         \o [i \in 1..Len(devices) |-> Msg("Row", list_devices_row(devices[i]))]

\* what initiate_action prints for a response with success=True
initiate_action_shown(response) ==
    <<Msg("Success", <<>>),
      Msg("Action ID", <<>>),
      Msg("Status", _action_status_to_string(response.action_status))>>

\* get_action_status_shown choosing between the completion lines and the
\* in-progress line by the status of the action
get_action_status_shown_by_status(response) ==
    <<Msg("Action Information", <<>>),
      Msg("Action Type", _action_type_to_string(response.action_type)),
      Msg("Status", _action_status_to_string(response.status)),
      Msg("Initiated", _format_timestamp(response.initiated_at))>>
    \o (IF response.status \in {device_management_pb2.COMPLETED,
                                device_management_pb2.FAILED}
        THEN <<Msg("Completed", _format_timestamp(response.completed_at)),
               Msg("Duration", str(response.completed_at - response.initiated_at)
                               \o w_seconds)>>
        ELSE <<Msg("Completed", w_In_progress)>>)
    \o (IF response.error_message # <<>>
        THEN <<Msg("Error detail", response.error_message)>>
        ELSE <<>>)

\* what get_action_status prints for a response with success=True
get_action_status_shown(response) ==
    <<Msg("Action Information", <<>>),
      Msg("Action Type", _action_type_to_string(response.action_type)),
      Msg("Status", _action_status_to_string(response.status)),
      Msg("Initiated", _format_timestamp(response.initiated_at))>>
    \o (IF response.completed_at > 0
        THEN <<Msg("Completed", _format_timestamp(response.completed_at)),
               Msg("Duration", str(response.completed_at - response.initiated_at)
                               \o w_seconds)>>
        ELSE <<Msg("Completed", w_In_progress)>>)
    \o (IF response.error_message # <<>>
        THEN <<Msg("Error detail", response.error_message)>>
        ELSE <<>>)

\* the handling of the call's outcome in the six operations: success is
\* displayed, success=False and a raised error are reported
operation_result(req, response) ==
    IF response.kind = "rpc_error"
    THEN [result |-> IF req.op = "InitiateDeviceAction" THEN "None" ELSE "False",
          out |-> <<Msg("gRPC error", <<>>)>>]
    ELSE IF response.kind = "ok"
    THEN [result |-> IF req.op = "InitiateDeviceAction" THEN "action_id" ELSE "True",
          out |-> CASE req.op = "SetDeviceStatus" -> set_device_status_shown(response)
                    [] req.op = "GetDeviceInfo" -> get_device_info_shown(response)
                    [] req.op = "ListDevices" -> list_devices_shown(response)
                    [] req.op = "InitiateDeviceAction" -> initiate_action_shown(response)
                    [] req.op = "GetDeviceActionStatus" -> get_action_status_shown(response)
                    [] OTHER -> <<Msg("Success", <<>>)>>]
    ELSE [result |-> IF req.op = "InitiateDeviceAction" THEN "None" ELSE "False",
          out |-> <<Msg("Failed", response.message)>>]

\* poll_iteration with time.sleep(interval) placed before the test of the
\* status instead of after it
poll_iteration_sleep_first(response, interval) ==
    IF response.kind = "rpc_error"
    THEN [done |-> TRUE, result |-> "False", slept |-> FALSE,
          out |-> <<Msg("gRPC error", <<>>)>>]
    ELSE IF response.kind # "ok"
    THEN [done |-> TRUE, result |-> "False", slept |-> FALSE,
          out |-> <<Msg("Failed", response.message)>>]
    ELSE LET shown == <<Msg("Status", _action_status_to_string(response.status))>>
         IN  IF sleep_raises(interval)
             THEN [done |-> TRUE, result |-> "False", slept |-> FALSE,
                   out |-> shown \o <<Msg("Error", <<>>)>>]
             ELSE IF response.status = device_management_pb2.COMPLETED
             THEN [done |-> TRUE, result |-> "True", slept |-> TRUE,
                   out |-> shown \o <<Msg("Action completed successfully", <<>>)>>]
             ELSE IF response.status = device_management_pb2.FAILED
             THEN [done |-> TRUE, result |-> "False", slept |-> TRUE,
                   out |-> shown \o <<Msg("Action failed", <<>>)>> \o
                           (IF response.error_message # <<>>
                            THEN <<Msg("Error detail", response.error_message)>>
                            ELSE <<>>)]
             ELSE [done |-> FALSE, result |-> "None", slept |-> TRUE, out |-> shown]

\* poll_iteration printing the error_message of a FAILED action without the
\* test that it is not empty
poll_iteration_always_detail(response, interval) ==
    IF response.kind = "rpc_error"
    THEN [done |-> TRUE, result |-> "False", slept |-> FALSE,
          out |-> <<Msg("gRPC error", <<>>)>>]
    ELSE IF response.kind # "ok"
    THEN [done |-> TRUE, result |-> "False", slept |-> FALSE,
          out |-> <<Msg("Failed", response.message)>>]
    ELSE LET shown == <<Msg("Status", _action_status_to_string(response.status))>>
         IN  IF response.status = device_management_pb2.COMPLETED
             THEN [done |-> TRUE, result |-> "True", slept |-> FALSE,
                   out |-> shown \o <<Msg("Action completed successfully", <<>>)>>]
             ELSE IF response.status = device_management_pb2.FAILED
             THEN [done |-> TRUE, result |-> "False", slept |-> FALSE,
                   out |-> shown \o <<Msg("Action failed", <<>>),
                                      Msg("Error detail", response.error_message)>>]
             ELSE IF sleep_raises(interval)
             THEN [done |-> TRUE, result |-> "False", slept |-> FALSE,
                   out |-> shown \o <<Msg("Error", <<>>)>>]
             ELSE [done |-> FALSE, result |-> "None", slept |-> TRUE, out |-> shown]

\* poll_iteration that reports success=False and goes on polling
poll_iteration_retries(response, interval) ==
    IF response.kind = "rpc_error"
    THEN [done |-> TRUE, result |-> "False", slept |-> FALSE,
          out |-> <<Msg("gRPC error", <<>>)>>]
    ELSE IF response.kind # "ok"
    THEN IF sleep_raises(interval)
         THEN [done |-> TRUE, result |-> "False", slept |-> FALSE,
               out |-> <<Msg("Failed", response.message), Msg("Error", <<>>)>>]
         ELSE [done |-> FALSE, result |-> "None", slept |-> TRUE,
               out |-> <<Msg("Failed", response.message)>>]
    ELSE LET shown == <<Msg("Status", _action_status_to_string(response.status))>>
         IN  IF response.status = device_management_pb2.COMPLETED
             THEN [done |-> TRUE, result |-> "True", slept |-> FALSE,
                   out |-> shown \o <<Msg("Action completed successfully", <<>>)>>]
             ELSE IF response.status = device_management_pb2.FAILED
             THEN [done |-> TRUE, result |-> "False", slept |-> FALSE,
                   out |-> shown \o <<Msg("Action failed", <<>>)>> \o
                           (IF response.error_message # <<>>
                            THEN <<Msg("Error detail", response.error_message)>>
                            ELSE <<>>)]
             ELSE IF sleep_raises(interval)
             THEN [done |-> TRUE, result |-> "False", slept |-> FALSE,
                   out |-> shown \o <<Msg("Error", <<>>)>>]
             ELSE [done |-> FALSE, result |-> "None", slept |-> TRUE, out |-> shown]

\* one iteration of the loop of poll_action_status, from the outcome of its
\* status check on: [done, result, out, slept], where done says that the
\* function returns and slept that time.sleep(interval) was entered
poll_iteration(response, interval) ==
    IF response.kind = "rpc_error"
    THEN [done |-> TRUE, result |-> "False", slept |-> FALSE,
          out |-> <<Msg("gRPC error", <<>>)>>]
    ELSE IF response.kind # "ok"
    THEN [done |-> TRUE, result |-> "False", slept |-> FALSE,
          out |-> <<Msg("Failed", response.message)>>]
    ELSE LET status_str == _action_status_to_string(response.status)
             shown == <<Msg("Status", status_str)>>
         IN  IF response.status = device_management_pb2.COMPLETED
             THEN [done |-> TRUE, result |-> "True", slept |-> FALSE,
                   out |-> shown \o <<Msg("Action completed successfully", <<>>)>>]
             ELSE IF response.status = device_management_pb2.FAILED
             THEN [done |-> TRUE, result |-> "False", slept |-> FALSE,
                   out |-> shown \o <<Msg("Action failed", <<>>)>> \o
                           (IF response.error_message # <<>>
                            THEN <<Msg("Error detail", response.error_message)>>
                            ELSE <<>>)]
             ELSE IF sleep_raises(interval)
             THEN [done |-> TRUE, result |-> "False", slept |-> FALSE,
                   out |-> shown \o <<Msg("Error", <<>>)>>]
             ELSE [done |-> FALSE, result |-> "None", slept |-> TRUE, out |-> shown]

\* the flag scan of the register command: parts[i:] with the values so far
RECURSIVE register_flags(_, _, _, _, _)
register_flags(parts, i, name, device_type, status) ==
    IF i > Len(parts)
    THEN [name |-> name, device_type |-> device_type, status |-> status]
    ELSE IF parts[i] = w_f_name /\ i + 1 <= Len(parts)
    THEN register_flags(parts, i + 2, parts[i + 1], device_type, status)
    ELSE IF parts[i] = w_f_type /\ i + 1 <= Len(parts)
    THEN register_flags(parts, i + 2, name, parts[i + 1], status)
    ELSE IF parts[i] = w_f_status /\ i + 1 <= Len(parts)
    THEN register_flags(parts, i + 2, name, device_type, parts[i + 1])
    ELSE register_flags(parts, i + 1, name, device_type, status)

\* the tokens after the first --params, when there are any
param_list(parts) ==
    IF Contains(parts, w_f_params) /\ IndexOf(parts, w_f_params) < Len(parts)
    THEN SubSeq(parts, IndexOf(parts, w_f_params) + 1, Len(parts))
    ELSE <<>>

\* the interval of poll-action: the default, or float() of the token after
\* the first --interval
poll_interval(parts) ==
    IF Contains(parts, w_f_interval) /\ IndexOf(parts, w_f_interval) < Len(parts)
    THEN float(parts[IndexOf(parts, w_f_interval) + 1])
    ELSE DefaultInterval

\* len(parts) < n: a required argument is missing
missing_args(parts, n) == Len(parts) < n

---------------------------------------------------------------------------
\* The state of main().
\*   pc         where main is: "start" before client.connect(), "prompt" in
\*              input(), "call" in the remote call of a command, "poll_call"
\*              in a status check of poll_action_status, "poll_sleep" in its
\*              time.sleep(interval), "exited" after main returned
\*   channel    self.channel: "None", or the channel, "open" or "closed"
\*   stub       self.stub is set
\*   closes     the number of channel.close() calls made
\*   rc         the value main returned
\*   lastInput  what input() last gave: a line, EOFError or KeyboardInterrupt
\*   request    the request of the last remote call of the current command
\*   response   the response the current command last processed
\*   interval   the interval of the current poll
\*   calls      the remote calls the current command has issued
\*   checks     the status checks the current poll has issued
\*   sleeps     the time.sleep calls the current poll has entered
\*   seen       the outcomes of the status checks the current poll processed
\*   result     what the operation of the current command returned
\*   out        what the current command has printed
\*   aborted    an interrupt ended a remote call of the current command
\*              before its response was received
\*   intr       an interrupt arrived during the remote call in flight and is
\*              raised when the call returns

VARIABLES pc, channel, stub, closes, rc, lastInput, request, response,
          interval, calls, checks, sleeps, seen, result, out, aborted, intr

vars == <<pc, channel, stub, closes, rc, lastInput, request, response,
          interval, calls, checks, sleeps, seen, result, out, aborted, intr>>

Init ==
    /\ pc = "start"
    /\ channel = "None"
    /\ stub = FALSE
    /\ closes = 0
    /\ rc = 0
    /\ lastInput = [kind |-> "none", text |-> <<>>]
    /\ request = NoRequest
    /\ response = NoResponse
    /\ interval = DefaultInterval
    /\ calls = 0
    /\ checks = 0
    /\ sleeps = 0
    /\ seen = <<>>
    /\ result = "None"
    /\ out = <<>>
    /\ aborted = FALSE
    /\ intr = FALSE

\* client.connect() and the test main makes of it.  "ready": the channel is
\* ready within the wait; "timeout": the channel and the stub were created
\* and readiness was not confirmed (FutureTimeoutError); "error": creating
\* the channel raised.  connect returns False in the last two and main
\* returns 1.
Connect ==
    /\ pc = "start"
    /\ \E outcome \in {"ready", "timeout", "error"} :
         /\ channel' = IF outcome = "error" THEN "None" ELSE "open"
         /\ stub' = (outcome # "error")
         /\ pc' = IF outcome = "ready" THEN "prompt" ELSE "exited"
         /\ rc' = IF outcome = "ready" THEN rc ELSE 1
         /\ out' = IF outcome = "ready" THEN <<Msg("Banner", <<>>)>>
                   ELSE <<Msg("Error connecting", <<>>)>>
    /\ UNCHANGED <<closes, lastInput, request, response, interval, calls,
                   checks, sleeps, seen, result, aborted, intr>>

\* the finally clause of main: client.close(), then return 0
MainFinally(finalOut) ==
    /\ pc' = "exited"
    /\ rc' = 0
    /\ channel' = IF channel # "None" THEN "closed" ELSE channel
    /\ closes' = IF channel # "None" THEN closes + 1 ELSE closes
    /\ out' = finalOut \o <<Msg("Goodbye", <<>>)>>
    /\ UNCHANGED stub

\* input() read by a second thread: a line is taken whatever main is doing
NewCommand_any_time(kind, line) ==
    /\ lastInput' = [kind |-> kind, text |-> line]
    /\ response' = NoResponse
    /\ seen' = <<>>
    /\ sleeps' = 0
    /\ aborted' = FALSE
    /\ intr' = FALSE

\* input() gave something: the state of the previous command is dropped
NewCommand(kind, line) ==
    /\ pc = "prompt"
    /\ lastInput' = [kind |-> kind, text |-> line]
    /\ response' = NoResponse
    /\ seen' = <<>>
    /\ sleeps' = 0
    /\ aborted' = FALSE
    /\ intr' = FALSE

\* the command ends without a remote call and main reads the next line
Local(res, printed) ==
    /\ pc' = "prompt"
    /\ out' = printed
    /\ result' = res
    /\ request' = NoRequest
    /\ calls' = 0
    /\ checks' = 0
    /\ interval' = DefaultInterval
    /\ UNCHANGED <<channel, stub, closes, rc>>

\* Invoke of a client that keeps the device id of its last request and
\* sends it with a request that names no device
Invoke_remembers(pre, failed, printed) ==
    IF pre.call
    THEN /\ pc' = "call"
         /\ out' = printed \o pre.out
         /\ result' = "None"
         /\ request' = IF pre.request.device_id = <<>>
                        THEN [pre.request EXCEPT !.device_id = request.device_id]
                        ELSE pre.request
         /\ calls' = 1
         /\ checks' = 0
         /\ interval' = DefaultInterval
         /\ UNCHANGED <<channel, stub, closes, rc>>
    ELSE Local(failed, printed \o pre.out)

\* the command calls an operation: pre is the operation up to its remote call
Invoke(pre, failed, printed) ==
    IF pre.call
    THEN /\ pc' = "call"
         /\ out' = printed \o pre.out
         /\ result' = "None"
         /\ request' = pre.request
         /\ calls' = 1
         /\ checks' = 0
         /\ interval' = DefaultInterval
         /\ UNCHANGED <<channel, stub, closes, rc>>
    ELSE Local(failed, printed \o pre.out)

\* The head of the loop body for a line: command = input("> ").strip(),
\* parts = shlex.split(command) with ok = FALSE when it raises, and
\* cmd = parts[0].lower()
ReadLine(line) ==
    LET command == strip(line)
        split   == shlex_split(command)
    IN  [text    |-> line,
         command |-> command,
         ok      |-> split.ok,
         parts   |-> split.parts,
         cmd     |-> IF split.parts # <<>> THEN lower(split.parts[1]) ELSE <<>>]

\* the lines of Lines as read by the loop
Inputs == { ReadLine(line) : line \in Lines }

\* the line reaches the dispatch on cmd
Dispatched(in) ==
    /\ in.command # <<>>
    /\ in.command \notin {w_exit, w_quit, w_help}
    /\ in.ok
    /\ in.parts # <<>>

EmptyLine ==
    \E in \in Inputs :
      /\ in.command = <<>>
      /\ NewCommand("line", in.text)
      /\ Local("None", <<>>)

Exit ==
    \E in \in Inputs :
      /\ in.command \in {w_exit, w_quit}
      /\ NewCommand("line", in.text)
      /\ MainFinally(<<>>)
      /\ UNCHANGED <<request, interval, calls, checks, result>>

EndOfFile ==
    /\ NewCommand("eof", <<>>)
    /\ MainFinally(<<>>)
    /\ UNCHANGED <<request, interval, calls, checks, result>>

Help ==
    \E in \in Inputs :
      /\ in.command = w_help
      /\ NewCommand("line", in.text)
      /\ Local("None", <<Msg("Help", <<>>)>>)

\* the ValueError of shlex.split not caught by the loop: it leaves main
\* through the finally clause
TokenizeError_uncaught ==
    \E in \in Inputs :
      /\ in.command # <<>>
      /\ in.command \notin {w_exit, w_quit, w_help}
      /\ ~in.ok
      /\ NewCommand("line", in.text)
      /\ MainFinally(<<Msg("Error", <<>>)>>)
      /\ UNCHANGED <<request, interval, calls, checks, result>>

\* shlex.split raises ValueError, caught by `except Exception` of the loop
TokenizeError ==
    \E in \in Inputs :
      /\ in.command # <<>>
      /\ in.command \notin {w_exit, w_quit, w_help}
      /\ ~in.ok
      /\ NewCommand("line", in.text)
      /\ Local("None", <<Msg("Error", <<>>)>>)

CmdList ==
    \E in \in Inputs :
      /\ Dispatched(in)
      /\ in.cmd = w_list
      /\ NewCommand("line", in.text)
      /\ Invoke(list_devices, "False", <<>>)

CmdRegister ==
    \E in \in Inputs :
      /\ Dispatched(in)
      /\ in.cmd = w_register
      /\ NewCommand("line", in.text)
      /\ LET parts == in.parts IN
         IF missing_args(parts, 2)
         THEN Local("None", <<Msg("Usage", w_register)>>)
         ELSE LET flags == register_flags(parts, 3, <<>>, <<>>, w_IDLE)
              IN  Invoke(register_device(parts[2], flags.name, flags.device_type,
                                         flags.status),
                         "False", <<>>)

CmdSetStatus ==
    \E in \in Inputs :
      /\ Dispatched(in)
      /\ in.cmd = w_set_status
      /\ NewCommand("line", in.text)
      /\ LET parts == in.parts IN
         IF missing_args(parts, 3)
         THEN Local("None", <<Msg("Usage", w_set_status)>>)
         ELSE Invoke(set_device_status(parts[2], parts[3]), "False", <<>>)

\* get-info with the usage message printed and the operation called all the
\* same
CmdGetInfo_falls_through ==
    \E in \in Inputs :
      /\ Dispatched(in)
      /\ in.cmd = w_get_info
      /\ NewCommand("line", in.text)
      /\ LET parts == in.parts IN
         IF missing_args(parts, 2)
         THEN Invoke(get_device_info(<<>>), "False", <<Msg("Usage", w_get_info)>>)
         ELSE Invoke(get_device_info(parts[2]), "False", <<>>)

CmdGetInfo ==
    \E in \in Inputs :
      /\ Dispatched(in)
      /\ in.cmd = w_get_info
      /\ NewCommand("line", in.text)
      /\ LET parts == in.parts IN
         IF missing_args(parts, 2)
         THEN Local("None", <<Msg("Usage", w_get_info)>>)
         ELSE Invoke(get_device_info(parts[2]), "False", <<>>)

CmdInitiateAction ==
    \E in \in Inputs :
      /\ Dispatched(in)
      /\ in.cmd = w_initiate_action
      /\ NewCommand("line", in.text)
      /\ LET parts == in.parts IN
         IF missing_args(parts, 3)
         THEN Local("None", <<Msg("Usage", w_initiate_action)>>)
         ELSE LET parsed == parse_action_params(param_list(parts))
                  warnings == [i \in 1..Len(parsed.warned) |->
                                  Msg("Warning: Invalid parameter format", parsed.warned[i])]
              IN  Invoke(initiate_action(parts[2], parts[3], parsed.params),
                         "None", warnings)

CmdActionStatus ==
    \E in \in Inputs :
      /\ Dispatched(in)
      /\ in.cmd = w_action_status
      /\ NewCommand("line", in.text)
      /\ LET parts == in.parts IN
         IF missing_args(parts, 2)
         THEN Local("None", <<Msg("Usage", w_action_status)>>)
         ELSE Invoke(get_action_status(parts[2]), "False", <<>>)

\* poll-action up to the first status check of poll_action_status
CmdPollAction ==
    \E in \in Inputs :
      /\ Dispatched(in)
      /\ in.cmd = w_poll_action
      /\ NewCommand("line", in.text)
      /\ LET parts == in.parts IN
         IF missing_args(parts, 2)
         THEN Local("None", <<Msg("Usage", w_poll_action)>>)
         ELSE IF ~poll_interval(parts).ok
         THEN Local("None", <<Msg("Error: Invalid interval value", <<>>)>>)
         ELSE /\ pc' = "poll_call"
              /\ out' = <<Msg("Polling action", parts[2])>>
              /\ result' = "None"
              /\ request' = get_action_status(parts[2]).request
              /\ calls' = 1
              /\ checks' = 1
              /\ interval' = poll_interval(parts)
              /\ UNCHANGED <<channel, stub, closes, rc>>

CmdUnknown ==
    \E in \in Inputs :
      /\ Dispatched(in)
      /\ in.cmd \notin {w_list, w_register, w_set_status, w_get_info,
                           w_initiate_action, w_action_status, w_poll_action}
      /\ NewCommand("line", in.text)
      /\ Local("None", <<Msg("Unknown command", in.cmd), Msg("Type 'help'", <<>>)>>)

---------------------------------------------------------------------------
\* Remote calls in flight, the polling loop and interrupts.

\* a KeyboardInterrupt handler inside the loop of poll_action_status that
\* reports the interrupt and goes on with the next iteration
poll_interrupted_continues(printed) ==
    [pc |-> "poll_sleep", result |-> "None",
     out |-> printed \o <<Msg("Polling stopped by user", <<>>)>>]

\* `except KeyboardInterrupt` of poll_action_status
poll_interrupted(printed) ==
    [pc |-> "prompt", result |-> "False",
     out |-> printed \o <<Msg("Polling stopped by user", <<>>)>>]

\* a KeyboardInterrupt handler of main that leaves the loop: break instead
\* of going on with the next line
main_interrupted_breaks(printed) ==
    [pc |-> "exited", result |-> "None",
     out |-> printed \o <<Msg("Use 'exit' to quit", <<>>)>>]

\* `except KeyboardInterrupt` of the loop of main: the operations do not
\* catch KeyboardInterrupt, so it reaches main from a command's remote call
main_interrupted(printed) ==
    [pc |-> "prompt", result |-> "None",
     out |-> printed \o <<Msg("Use 'exit' to quit", <<>>)>>]

\* the remote call of a command returns (or raises) and the operation
\* handles it; an interrupt that arrived during the call is raised instead
CallReturn ==
    /\ pc = "call"
    /\ \E r \in ResponsesTo(request) :
         IF intr
         THEN /\ pc' = main_interrupted(out).pc
              /\ out' = main_interrupted(out).out
              /\ result' = main_interrupted(out).result
              /\ UNCHANGED response
         ELSE /\ pc' = "prompt"
              /\ out' = out \o operation_result(request, r).out
              /\ result' = operation_result(request, r).result
              /\ response' = r
    /\ intr' = FALSE
    /\ UNCHANGED <<channel, stub, closes, rc, lastInput, request, interval,
                   calls, checks, sleeps, seen, aborted>>

\* a status check of the poll returns (or raises) and the iteration runs up
\* to its time.sleep or to the return of poll_action_status
PollReturn ==
    /\ pc = "poll_call"
    /\ \E r \in StatusResponses :
         IF intr
         THEN /\ pc' = poll_interrupted(out).pc
              /\ out' = poll_interrupted(out).out
              /\ result' = poll_interrupted(out).result
              /\ UNCHANGED <<response, seen, sleeps>>
         ELSE LET it == poll_iteration(r, interval) IN
              /\ it.done \/ checks < MaxChecks
              /\ pc' = IF it.done THEN "prompt" ELSE "poll_sleep"
              /\ out' = out \o it.out
              /\ result' = it.result
              /\ response' = r
              /\ seen' = Append(seen, [kind |-> r.kind, status |-> r.status])
              /\ sleeps' = IF it.slept THEN sleeps + 1 ELSE sleeps
    /\ intr' = FALSE
    /\ UNCHANGED <<channel, stub, closes, rc, lastInput, request, interval,
                   calls, checks, aborted>>

\* time.sleep(interval) returns and the loop issues the next status check
PollWake ==
    /\ pc = "poll_sleep"
    /\ pc' = "poll_call"
    /\ checks' = checks + 1
    /\ calls' = calls + 1
    /\ UNCHANGED <<channel, stub, closes, rc, lastInput, request, response,
                   interval, sleeps, seen, result, out, aborted, intr>>

\* KeyboardInterrupt while input() waits
InterruptPrompt ==
    /\ NewCommand("interrupt", <<>>)
    /\ Local(main_interrupted(<<>>).result, main_interrupted(<<>>).out)

\* an interrupt while a remote call is in flight: the blocking call either
\* raises KeyboardInterrupt at once, the response not yet received, or the
\* interrupt is raised when the call returns
InterruptInFlight ==
    /\ pc \in {"call", "poll_call"}
    /\ ~intr
    /\ \E atOnce \in BOOLEAN :
         IF atOnce
         THEN LET h == IF pc = "call" THEN main_interrupted(out)
                       ELSE poll_interrupted(out) IN
              /\ pc' = h.pc
              /\ out' = h.out
              /\ result' = h.result
              /\ aborted' = TRUE
              /\ UNCHANGED intr
         ELSE /\ intr' = TRUE
              /\ UNCHANGED <<pc, out, result, aborted>>
    /\ UNCHANGED <<channel, stub, closes, rc, lastInput, request, response,
                   interval, calls, checks, sleeps, seen>>

\* an interrupt during time.sleep(interval)
InterruptSleep ==
    /\ pc = "poll_sleep"
    /\ pc' = poll_interrupted(out).pc
    /\ out' = poll_interrupted(out).out
    /\ result' = poll_interrupted(out).result
    /\ UNCHANGED <<channel, stub, closes, rc, lastInput, request, response,
                   interval, calls, checks, sleeps, seen, aborted, intr>>

Next ==
    \/ Connect
    \/ EmptyLine
    \/ Exit
    \/ EndOfFile
    \/ Help
    \/ TokenizeError
    \/ CmdList
    \/ CmdRegister
    \/ CmdSetStatus
    \/ CmdGetInfo
    \/ CmdInitiateAction
    \/ CmdActionStatus
    \/ CmdPollAction
    \/ CmdUnknown
    \/ CallReturn
    \/ PollReturn
    \/ PollWake
    \/ InterruptPrompt
    \/ InterruptInFlight
    \/ InterruptSleep

Spec == Init /\ [][Next]_vars

TypeOK ==
    /\ pc \in {"start", "prompt", "call", "poll_call", "poll_sleep", "exited"}
    /\ channel \in {"None", "open", "closed"}
    /\ stub \in BOOLEAN
    /\ closes \in Nat
    /\ rc \in {0, 1}
    /\ calls \in 0..MaxChecks
    /\ checks \in 0..MaxChecks
    /\ sleeps \in 0..MaxChecks
    /\ Len(seen) <= MaxChecks
    /\ result \in {"None", "True", "False", "action_id"}
    /\ aborted \in BOOLEAN
    /\ intr \in BOOLEAN

---------------------------------------------------------------------------
\* Properties.

\* the current command, as read from the last input line
LastLine == ReadLine(lastInput.text)

\* the last input is a line that reached the dispatch with command name c
Ran(c) == lastInput.kind = "line" /\ Dispatched(LastLine) /\ LastLine.cmd = c

Printed(m) == \E i \in 1..Len(out) : out[i].msg = m

Last(s) == s[Len(s)]

\* outcome e of a status check is a successful response with a status of S
Answered(e, S) == e.kind = "ok" /\ e.status \in S

NonTerminal == {device_management_pb2.PENDING, device_management_pb2.RUNNING}

\* C1: when the k-th status check of a poll is answered COMPLETED after k-1
\* answers PENDING or RUNNING, the poll has made exactly k status checks and
\* k-1 sleeps, has returned True and has made no check or sleep after it.
PollSucceedsOnKthCheck ==
    \A k \in 1..Len(seen) :
        ( /\ \A i \in 1..(k - 1) : Answered(seen[i], NonTerminal)
          /\ Answered(seen[k], {device_management_pb2.COMPLETED}) )
        => /\ Len(seen) = k
           /\ checks = k
           /\ calls = k
           /\ sleeps = k - 1
           /\ pc = "prompt"
           /\ result = "True"
           /\ Last(out).msg = "Action completed successfully"

\* the sequence PENDING, RUNNING, RUNNING, COMPLETED: 4 checks, 3 sleeps
PollSucceedsOnKthCheckWitness ==
    /\ Len(seen) = 4
    /\ [i \in 1..4 |-> seen[i].status] =
          <<device_management_pb2.PENDING, device_management_pb2.RUNNING,
            device_management_pb2.RUNNING, device_management_pb2.COMPLETED>>
    /\ \A i \in 1..4 : seen[i].kind = "ok"
    /\ checks = 4
    /\ sleeps = 3
    /\ result = "True"

\* C2: when the k-th status check of a poll is answered FAILED after k-1
\* answers PENDING or RUNNING, the poll has returned False after exactly k
\* status checks, and it printed the error_message of that answer if and
\* only if that error_message is not empty.
PollFailsOnKthCheck ==
    \A k \in 1..Len(seen) :
        ( /\ \A i \in 1..(k - 1) : Answered(seen[i], NonTerminal)
          /\ Answered(seen[k], {device_management_pb2.FAILED}) )
        => /\ Len(seen) = k
           /\ checks = k
           /\ calls = k
           /\ pc = "prompt"
           /\ result = "False"
           /\ Printed("Action failed")
           /\ Printed("Error detail") <=> (response.error_message # <<>>)
           /\ Printed("Error detail") => Last(out) = Msg("Error detail", response.error_message)

\* the sequence PENDING, FAILED with an error message
PollFailsOnKthCheckWitness ==
    /\ Len(seen) = 2
    /\ Answered(seen[1], {device_management_pb2.PENDING})
    /\ Answered(seen[2], {device_management_pb2.FAILED})
    /\ response.error_message = w_boom
    /\ checks = 2
    /\ result = "False"
    /\ Last(out) = Msg("Error detail", w_boom)

\* C3: a status check of a poll that ends in success=False or in a raised
\* transport error ends the poll with the result False at once: the poll
\* has made no sleep and no status check after it.
PollStopsOnCallFailure ==
    \A k \in 1..Len(seen) :
        seen[k].kind \in {"fail", "rpc_error"}
        => /\ Len(seen) = k
           /\ checks = k
           /\ calls = k
           /\ sleeps = k - 1
           /\ pc = "prompt"
           /\ result = "False"

\* a transport error on the second status check
PollStopsOnCallFailureWitness ==
    /\ Len(seen) = 2
    /\ seen[2].kind = "rpc_error"
    /\ checks = 2
    /\ sleeps = 1
    /\ pc = "prompt"
    /\ result = "False"

InterruptHandled ==
    /\ Len(out') = Len(out) + 1
    /\ Last(out').msg \in {"Polling stopped by user", "Use 'exit' to quit"}

HasIntervalValue ==
    /\ Ran(w_poll_action)
    /\ Len(LastLine.parts) >= 2
    /\ Contains(LastLine.parts, w_f_interval)
    /\ IndexOf(LastLine.parts, w_f_interval) < Len(LastLine.parts)

IntervalValue == LastLine.parts[IndexOf(LastLine.parts, w_f_interval) + 1]

\* C5: poll-action <action_id> --interval V issues a status check only if V
\* parses as a positive number.
PollOnlyWithPositiveInterval ==
    (HasIntervalValue /\ calls >= 1) => IsPositive(float(IntervalValue))

DeviceStatusNames ==
    {w_IDLE, w_BUSY, w_OFFLINE, w_MAINTENANCE, w_UPDATING, w_RECOVERING, w_ERROR}

ActionTypeNames ==
    {w_SOFTWARE_UPDATE, w_FIRMWARE_UPDATE, w_SYSTEM_REBOOT, w_CONFIGURATION_CHANGE}

\* ignoring case, token is one of names
IsNameOf(names, token) == upper(token) \in names

\* the --status value of a register line, as its flag scan reads it
StatusValue == register_flags(LastLine.parts, 3, <<>>, <<>>, w_IDLE).status

\* C6: register with a --status value, set-status with a status and
\* initiate-action with an action type that is not, ignoring case, a name of
\* the enum make no remote call and print the invalid-value error with the
\* string as the user typed it.
InvalidEnumNeverCalls ==
    /\ ( /\ Ran(w_register)
         /\ Len(LastLine.parts) >= 2
         /\ ~IsNameOf(DeviceStatusNames, StatusValue) )
       => /\ calls = 0
          /\ pc = "prompt"
          /\ request = NoRequest
          /\ out = <<Msg("Error: Invalid status", StatusValue)>>
    /\ ( /\ Ran(w_set_status)
         /\ Len(LastLine.parts) >= 3
         /\ ~IsNameOf(DeviceStatusNames, LastLine.parts[3]) )
       => /\ calls = 0
          /\ pc = "prompt"
          /\ request = NoRequest
          /\ out = <<Msg("Error: Invalid status", LastLine.parts[3])>>
    /\ ( /\ Ran(w_initiate_action)
         /\ Len(LastLine.parts) >= 3
         /\ ~IsNameOf(ActionTypeNames, LastLine.parts[3]) )
       => /\ calls = 0
          /\ pc = "prompt"
          /\ request = NoRequest
          /\ Last(out) = Msg("Error: Invalid action type", LastLine.parts[3])

\* register dev1 --status bogus
InvalidEnumNeverCallsWitness ==
    /\ Ran(w_register)
    /\ LastLine.parts = <<w_register, w_dev1, w_f_status, w_bogus>>
    /\ calls = 0
    /\ pc = "prompt"
    /\ out = <<Msg("Error: Invalid status", w_bogus)>>

\* the number of tokens a command needs, its name included
RequiredParts ==
    << <<w_register, 2>>, <<w_set_status, 3>>, <<w_get_info, 2>>,
       <<w_initiate_action, 3>>, <<w_action_status, 2>>, <<w_poll_action, 2>> >>

\* C7: a line of a command with required arguments that has fewer tokens
\* than the command needs prints the usage of the command, makes no remote
\* call and leaves main at the prompt.
MissingArgumentsUsage ==
    \A i \in 1..Len(RequiredParts) :
        (Ran(RequiredParts[i][1]) /\ Len(LastLine.parts) < RequiredParts[i][2])
        => /\ calls = 0
           /\ request = NoRequest
           /\ out = <<Msg("Usage", RequiredParts[i][1])>>
           /\ pc = "prompt"

\* set-status dev1
MissingArgumentsUsageWitness ==
    /\ Ran(w_set_status)
    /\ LastLine.parts = <<w_set_status, w_dev1>>
    /\ out = <<Msg("Usage", w_set_status)>>
    /\ calls = 0
    /\ pc = "prompt"

\* what is printed for an input validation error, a call-level failure or a
\* transport failure
ErrorMessages ==
    {"Error", "Usage", "Unknown command", "Error: Invalid status",
     "Error: Invalid action type", "Error: Invalid interval value",
     "Failed", "gRPC error"}

\* C8: once started, main ends only on exit, quit or end of input; a command
\* that printed an error of one of these kinds leaves main at the prompt
\* with the channel open.
SessionSurvivesErrors ==
    /\ (pc = "exited" /\ rc = 0)
       => \/ lastInput.kind = "eof"
          \/ lastInput.kind = "line" /\ strip(lastInput.text) \in {w_exit, w_quit}
    /\ (lastInput.kind = "line" /\ \E i \in 1..Len(out) : out[i].msg \in ErrorMessages)
       => /\ pc = "prompt"
          /\ channel = "open"
          /\ closes = 0

\* a line that cannot be tokenized
SessionSurvivesErrorsWitness ==
    /\ lastInput.kind = "line"
    /\ ~LastLine.ok
    /\ out = <<Msg("Error", <<>>)>>
    /\ pc = "prompt"
    /\ channel = "open"

\* C9: on every path by which main ends, a channel that was created has been
\* closed exactly once.
ChannelReleasedOnce ==
    (pc = "exited" /\ channel # "None") => (channel = "closed" /\ closes = 1)

\* the tokens after the first --params of the current line
ParamTokens ==
    LET parts == LastLine.parts
        first == CHOOSE i \in 1..Len(parts) :
                    parts[i] = w_f_params /\ \A j \in 1..(i - 1) : parts[j] # w_f_params
    IN  [i \in 1..(Len(parts) - first) |-> parts[first + i]]

HasEq(token) == \E i \in 1..Len(token) : token[i] = "="

FirstEq(token) ==
    CHOOSE i \in 1..Len(token) : token[i] = "=" /\ \A j \in 1..(i - 1) : token[j] # "="

KeyOf(token) == [i \in 1..(FirstEq(token) - 1) |-> token[i]]

ValueOf(token) == [i \in 1..(Len(token) - FirstEq(token)) |-> token[FirstEq(token) + i]]

\* the key=value tokens of ParamTokens as a dict, a later token replacing an
\* earlier one of the same key
ValidParams ==
    LET valid == {i \in 1..Len(ParamTokens) : HasEq(ParamTokens[i])}
        last(k) == CHOOSE i \in valid :
                      /\ KeyOf(ParamTokens[i]) = k
                      /\ \A j \in valid : KeyOf(ParamTokens[j]) = k => j <= i
    IN  [k \in {KeyOf(ParamTokens[i]) : i \in valid} |-> ValueOf(ParamTokens[last(k)])]

\* the tokens the current command printed a parameter warning for
WarnedTokens ==
    LET w == SelectSeq(out, LAMBDA m : m.msg = "Warning: Invalid parameter format")
    IN  [i \in 1..Len(w) |-> w[i].arg]

ExampleParamsLine ==
    Join(<<w_initiate_action, w_dev1, w_SYSTEM_REBOOT, w_f_params,
           <<"a", "=", "1">>, <<"b">>, w_f_params>>)

\* C10: initiate-action with a valid action type and --params issues the
\* InitiateDeviceAction call exactly once, with exactly the tokens that
\* contain "=" as parameters, each split at its first "=", and warns about
\* each of the other tokens; `--params a=1 b --params` sends {a: "1"}.
ParamsValidSubsetSent ==
    /\ ( /\ Ran(w_initiate_action)
         /\ Len(LastLine.parts) >= 3
         /\ IsNameOf(ActionTypeNames, LastLine.parts[3])
         /\ Contains(LastLine.parts, w_f_params) )
       => /\ calls = 1
          /\ request.op = "InitiateDeviceAction"
          /\ request.device_id = LastLine.parts[2]
          /\ request.action_params = ValidParams
          /\ WarnedTokens = SelectSeq(ParamTokens, LAMBDA t : ~HasEq(t))
    /\ (lastInput.kind = "line" /\ lastInput.text = ExampleParamsLine)
       => /\ calls = 1
          /\ request.action_params = [k \in {<<"a">>} |-> <<"1">>]
          /\ WarnedTokens = << <<"b">>, w_f_params >>

\* the example line, its call in flight
ParamsValidSubsetSentWitness ==
    /\ lastInput.kind = "line"
    /\ lastInput.text = ExampleParamsLine
    /\ pc = "call"
    /\ calls = 1
    /\ request.op = "InitiateDeviceAction"
    /\ DOMAIN request.action_params = {<<"a">>}
    /\ request.action_params[<<"a">>] = <<"1">>

\* the command names the interpreter knows
RecognizedCommands ==
    {w_list, w_register, w_set_status, w_get_info, w_initiate_action,
     w_action_status, w_poll_action, w_help, w_exit, w_quit}

\* C11: a line is reported as an unknown command exactly when its command
\* name, the first token in lower case, is not a recognized command.
UnknownExactlyWhenUnrecognized ==
    (lastInput.kind = "line" /\ LastLine.ok /\ LastLine.parts # <<>>)
    => (Printed("Unknown command") <=> LastLine.cmd \notin RecognizedCommands)

\* the current command has printed message m with text a
Shown(m, a) == \E i \in 1..Len(out) : out[i] = Msg(m, a)

\* the current command is action-status and it displayed a response
ActionStatusDisplayed ==
    Ran(w_action_status) /\ pc = "prompt" /\ response.kind = "ok"

\* completed_at is zero while the action is not terminal and set when it is
\* COMPLETED
TimesFollowStatus(r) ==
    /\ r.status \in NonTerminal => r.completed_at = 0
    /\ r.status = device_management_pb2.COMPLETED => r.completed_at > 0

\* the display by status: with PENDING or RUNNING no duration is shown and
\* the completion line says in progress, with COMPLETED the duration is
\* completed_at - initiated_at
DisplayByStatus ==
    /\ response.status \in NonTerminal =>
         ~Printed("Duration") /\ Shown("Completed", w_In_progress)
    /\ response.status = device_management_pb2.COMPLETED =>
         Shown("Duration",
               str(response.completed_at - response.initiated_at) \o w_seconds)

\* C12: as stated, the display of action-status follows the status of the
\* action for every successful response.
ActionStatusDisplayFollowsStatus == ActionStatusDisplayed => DisplayByStatus

\* C12: amended, the display of action-status follows completed_at: when it
\* is positive the completion time and the duration completed_at -
\* initiated_at are shown (1000 and 1090 give 90 seconds), otherwise no
\* duration is shown and the completion line says in progress; this is the
\* display by status for the responses whose completed_at is zero exactly
\* while the action is not terminal.
ActionStatusDisplayFollowsCompletedAt ==
    ActionStatusDisplayed =>
        /\ response.completed_at > 0 =>
             /\ ~Shown("Completed", w_In_progress)
             /\ Shown("Duration",
                      str(response.completed_at - response.initiated_at) \o w_seconds)
        /\ response.completed_at <= 0 =>
             ~Printed("Duration") /\ Shown("Completed", w_In_progress)
        /\ (response.initiated_at = 1000 /\ response.completed_at = 1090) =>
             Shown("Duration", <<"9", "0">> \o w_seconds)
        /\ TimesFollowStatus(response) => DisplayByStatus

ActionStatusDisplayFollowsCompletedAtWitness ==
    /\ ActionStatusDisplayed
    /\ response.status = device_management_pb2.COMPLETED
    /\ response.initiated_at = 1000
    /\ response.completed_at = 1090
    /\ Shown("Duration", <<"9", "0">> \o w_seconds)

\* the table lines the current command has printed
Rows == SelectSeq(out, LAMBDA e : e.msg = "Row")

\* cell is text followed by spaces up to the width of the action column
PaddedAction(text, cell) ==
    /\ Len(cell) = 20
    /\ Len(text) <= 20
    /\ SubSeq(cell, 1, Len(text)) = text
    /\ \A j \in (Len(text) + 1)..20 : cell[j] = " "

\* the current command is list and it printed the table of a response
ListDisplayed ==
    Ran(w_list) /\ pc = "prompt" /\ response.kind = "ok" /\ response.devices # <<>>

\* C13: in the table of list the action column of a device is "None" when
\* current_action_id is empty, the id itself when it has 1 to 20 characters,
\* its first 17 characters and "..." when it has more, always padded to 20
\* characters and never longer.
ActionColumnFitsWidth ==
    ListDisplayed =>
        /\ Len(Rows) = Len(response.devices)
        /\ \A i \in 1..Len(response.devices) :
             LET id   == response.devices[i].current_action_id
                 cell == Rows[i].arg[5]
             IN  /\ id = <<>> => PaddedAction(w_None, cell)
                 /\ Len(id) \in 1..20 => PaddedAction(id, cell)
                 /\ Len(id) > 20 => cell = SubSeq(id, 1, 17) \o <<".", ".", ".">>
                 /\ Len(cell) = 20

ActionColumnFitsWidthWitness ==
    /\ ListDisplayed
    /\ Len(Rows) = 3
    /\ Len(response.devices[1].current_action_id) = 21
    /\ Len(response.devices[2].current_action_id) = 20
    /\ response.devices[3].current_action_id = <<>>
    /\ Rows[1].arg[5] = SubSeq(IdText, 1, 17) \o <<".", ".", ".">>

ActionStatusNames == {w_PENDING, w_RUNNING, w_COMPLETED, w_FAILED}

EnumNames(enum) ==
    CASE enum = "DeviceStatus" -> DeviceStatusNames
      [] enum = "ActionType" -> ActionTypeNames
      [] OTHER -> ActionStatusNames

\* a name as a user may type it: upper case, lower case, mixed
Casings(name) ==
    { name, lower(name),
      [i \in 1..Len(name) |-> IF i % 2 = 0 THEN LowerChar(name[i]) ELSE name[i]] }

\* every token that ignoring case is a name of the enum parses, and
\* formatting the parsed value gives the token in upper case
RoundTrip(enum) ==
    \A name \in EnumNames(enum) : \A token \in Casings(name) :
        /\ enum_parse(enum, token).found
        /\ enum_format(enum, enum_parse(enum, token).value) = upper(token)

\* the enum value the request of the current command carries formats to
\* the token of the line in upper case
SentValueRoundTrip ==
    /\ (Ran(w_register) /\ calls > 0) =>
         _device_status_to_string(request.status) = upper(StatusValue)
    /\ (Ran(w_set_status) /\ calls > 0) =>
         _device_status_to_string(request.status) = upper(LastLine.parts[3])
    /\ (Ran(w_initiate_action) /\ calls > 0) =>
         _action_type_to_string(request.action_type) = upper(LastLine.parts[3])

\* C14: as stated, the round trip format(parse(token)) = upper(token) holds
\* for the names of each of the three enums, DeviceStatus, ActionType and
\* ActionStatus, and every name can be parsed.
EnumRoundTripAllThree ==
    /\ SentValueRoundTrip
    /\ \A enum \in {"DeviceStatus", "ActionType", "ActionStatus"} : RoundTrip(enum)

\* C14: amended, the round trip holds for DeviceStatus and ActionType, the
\* enums a user can type: the value a command sends is the one that formats
\* to the upper-cased token.  ActionStatus is only formatted: each of its
\* names is the format of a wire value and no token is parsed into one.
EnumRoundTripOfTypedEnums ==
    /\ SentValueRoundTrip
    /\ RoundTrip("DeviceStatus")
    /\ RoundTrip("ActionType")
    /\ \A name \in ActionStatusNames :
         /\ \E v \in 0..Len(action_status_map) : _action_status_to_string(v) = name
         /\ ~enum_parse("ActionStatus", name).found

\* initiate-action dev1 system_reboot: the request carries SYSTEM_REBOOT
EnumRoundTripOfTypedEnumsWitness ==
    /\ Ran(w_initiate_action)
    /\ calls > 0
    /\ LastLine.parts[3] = w_system_reboot
    /\ request.action_type = device_management_pb2.SYSTEM_REBOOT
    /\ _action_type_to_string(request.action_type) = w_SYSTEM_REBOOT

\* the wire values each enum knows
KnownValues(enum) ==
    CASE enum = "DeviceStatus" ->
           { device_status_map[i][2] : i \in 1..Len(device_status_map) }
      [] enum = "ActionType" ->
           { action_type_map[i][2] : i \in 1..Len(action_type_map) }
      [] OTHER ->
           { action_status_map[i][1] : i \in 1..Len(action_status_map) }

\* integers around the known values
WireValues == (0 - 3)..(Len(device_status_map) + 3)

\* the current command displayed a response of its operation
Displayed(c) == Ran(c) /\ pc = "prompt" /\ response.kind = "ok"

\* C15: formatting an integer that is not a known value of the enum gives
\* "UNKNOWN" for each of the three enums, and a response that carries such a
\* value is displayed in full by set-status, get-info, list, initiate-action,
\* action-status and a polling iteration: the value shows as UNKNOWN and the
\* operation reports success.
UnknownValueDisplayed ==
    /\ \A enum \in {"DeviceStatus", "ActionType", "ActionStatus"} :
         \A v \in WireValues \ KnownValues(enum) : enum_format(enum, v) = w_UNKNOWN
    /\ Displayed(w_set_status) =>
         /\ result = "True" /\ Len(out) = 3
         /\ response.previous_status = UnknownDeviceStatus => Shown("Previous", w_UNKNOWN)
         /\ response.current_status = UnknownDeviceStatus => Shown("Current", w_UNKNOWN)
    /\ Displayed(w_get_info) =>
         /\ result = "True" /\ Printed("Current Action")
         /\ response.device_info.status = UnknownDeviceStatus => Shown("Status", w_UNKNOWN)
    /\ Displayed(w_list) =>
         /\ result = "True" /\ Len(Rows) = Len(response.devices)
         /\ \A i \in 1..Len(response.devices) :
              response.devices[i].status = UnknownDeviceStatus =>
                  SubSeq(Rows[i].arg[4], 1, Len(w_UNKNOWN)) = w_UNKNOWN
    /\ Displayed(w_initiate_action) =>
         /\ result = "action_id"
         /\ response.action_status = UnknownStatus => Shown("Status", w_UNKNOWN)
    /\ Displayed(w_action_status) =>
         /\ result = "True" /\ Printed("Completed")
         /\ response.action_type = UnknownActionType => Shown("Action Type", w_UNKNOWN)
         /\ response.status = UnknownStatus => Shown("Status", w_UNKNOWN)
    /\ (Ran(w_poll_action) /\ response.kind = "ok" /\ response.status = UnknownStatus) =>
         /\ Shown("Status", w_UNKNOWN)
         /\ Printed("Error") => sleep_raises(interval)

\* action-status a1 answered with an action type and a status the client
\* does not know
UnknownValueDisplayedWitness ==
    /\ Displayed(w_action_status)
    /\ response.action_type = UnknownActionType
    /\ response.status = UnknownStatus
    /\ Shown("Action Type", w_UNKNOWN)
    /\ Shown("Status", w_UNKNOWN)
    /\ result = "True"

\* the poll of the current command was ended by an interrupt
PollCancelled == Ran(w_poll_action) /\ Printed("Polling stopped by user")

\* C16: a poll ended by an interrupt is not a failure: the result
\* poll_action_status returns for it differs from False, the result it
\* returns for a FAILED action, a call failure or a transport error.
CancelledPollIsNotFailure == PollCancelled => result # "False"

\* an interrupt was the last thing the session handled
Interrupted ==
    \/ lastInput.kind = "interrupt"
    \/ Printed("Polling stopped by user")
    \/ Printed("Use 'exit' to quit")

\* C17: an interrupt never ends the session: after an interrupt of a poll or
\* of a command, or at the prompt, main is back at the prompt, the channel
\* is open and was not closed, and an interrupted poll has made no status
\* check after the one the interrupt found.
InterruptLeavesSessionRunning ==
    Interrupted =>
        /\ pc = "prompt"
        /\ channel = "open" /\ stub /\ closes = 0 /\ rc = 0
        /\ Last(out).msg \in {"Polling stopped by user", "Use 'exit' to quit"}
        /\ PollCancelled =>
             /\ Last(out).msg = "Polling stopped by user"
             /\ checks \in {Len(seen), Len(seen) + 1}

\* a poll interrupted in its first sleep
InterruptLeavesSessionRunningWitness ==
    /\ PollCancelled
    /\ ~aborted
    /\ checks = 1 /\ sleeps = 1 /\ Len(seen) = 1
    /\ pc = "prompt" /\ channel = "open"

\* a remote call is in flight
InFlight == pc \in {"call", "poll_call"}

\* a step that issues a remote call
CallIssued == calls' > 0 /\ (calls' # calls \/ (pc = "prompt" /\ pc' \in {"call", "poll_call"}))

\* a step that starts poll_action_status
PollStarts == pc = "prompt" /\ pc' = "poll_call"

\* C18: one remote call at most is outstanding and one poll at most is
\* active: a call is issued only when none is in flight, input is read only
\* at the prompt, never during a call, a polling iteration or the sleep of a
\* poll, and a poll starts only at the prompt, a previous poll having
\* returned success or failure (cancellation included).
OneCallOnePoll ==
    [][ /\ CallIssued => ~InFlight
        /\ lastInput' # lastInput => pc = "prompt"
        /\ (pc # "prompt" /\ pc' # pc) =>
             /\ lastInput' = lastInput
             /\ pc = "poll_sleep" => pc' \in {"poll_call", "prompt"}
             /\ InFlight => ~CallIssued
        /\ (pc' = "poll_call" /\ checks' = 1 /\ pc # "poll_call") => PollStarts
        /\ (PollStarts /\ Ran(w_poll_action) /\ checks > 0) =>
             result \in {"True", "False"} ]_vars

\* the second status check of a poll is in flight
OneCallOnePollWitness ==
    /\ Ran(w_poll_action)
    /\ pc = "poll_call"
    /\ checks = 2
    /\ calls = 2
    /\ sleeps = 1

\* the request a line asks for, from its tokens alone
RequestOf(in) ==
    LET parts == in.parts
        flags == register_flags(parts, 3, <<>>, <<>>, w_IDLE)
    IN  CASE in.cmd = w_list -> list_devices.request
          [] in.cmd = w_register ->
               register_device(parts[2], flags.name, flags.device_type,
                               flags.status).request
          [] in.cmd = w_set_status -> set_device_status(parts[2], parts[3]).request
          [] in.cmd = w_get_info -> get_device_info(parts[2]).request
          [] in.cmd = w_initiate_action ->
               initiate_action(parts[2], parts[3],
                               parse_action_params(param_list(parts)).params).request
          [] OTHER -> get_action_status(parts[2]).request

\* what a line prints before its operation is called
PrintedBefore(in) ==
    IF in.cmd = w_initiate_action
    THEN LET warned == parse_action_params(param_list(in.parts)).warned
         IN  [i \in 1..Len(warned) |-> Msg("Warning: Invalid parameter format", warned[i])]
    ELSE <<>>

\* the request and the output of the current command are those of its own
\* line and of the response to its own call
OwnLineOnly ==
    /\ (lastInput.kind = "line" /\ Dispatched(LastLine) /\ calls > 0) =>
         request = RequestOf(LastLine)
    /\ (lastInput.kind = "line" /\ Dispatched(LastLine) /\ calls = 0) =>
         request = NoRequest
    /\ \A c \in RecognizedCommands \ {w_poll_action} :
         Displayed(c) =>
             out = PrintedBefore(LastLine)
                   \o operation_result(RequestOf(LastLine), response).out

\* C19: no command changes local state a later command reads: from startup
\* to exit the channel and the stub of the client are the ones connect set,
\* and the request and the output of the current command are those of its
\* own input line and of the responses to its own calls, nothing of an
\* earlier command or response being kept.
CommandsShareNoState ==
    /\ pc \in {"prompt", "call", "poll_call", "poll_sleep"} =>
         (channel = "open" /\ stub /\ closes = 0)
    /\ OwnLineOnly

\* list, read after another command's request, sends a request with no
\* field of that command
CommandsShareNoStateWitness ==
    /\ Ran(w_list)
    /\ pc = "prompt"
    /\ response.kind = "ok"
    /\ request = [NoRequest EXCEPT !.op = "ListDevices"]
    /\ Len(Rows) = 3

\* poll_action_status has returned by itself, no interrupt having ended it,
\* after a response with success=True
PollEndedOnStatus ==
    /\ Ran(w_poll_action)
    /\ pc = "prompt"
    /\ checks > 0
    /\ ~PollCancelled
    /\ response.kind = "ok"

\* C20: only COMPLETED and FAILED end a poll: after a successful response
\* with any other status, an unknown integer shown as UNKNOWN included, the
\* poll sleeps and checks again, so a poll that returned by itself after a
\* successful response saw COMPLETED or FAILED.
OnlyTerminalStatusEndsPoll ==
    /\ PollEndedOnStatus =>
         response.status \in {device_management_pb2.COMPLETED,
                              device_management_pb2.FAILED}
    /\ (Ran(w_poll_action) /\ pc = "poll_sleep") =>
         /\ response.kind = "ok"
         /\ response.status \notin {device_management_pb2.COMPLETED,
                                    device_management_pb2.FAILED}
         /\ Last(out) = Msg("Status", _action_status_to_string(response.status))

=============================================================================
